---- MODULE Spec2Model ----
(***************************************************************************)
(* ConnectCam (connectcam.py): a webcam manager that captures one MJPEG    *)
(* frame per interval from each configured V4L2 device and PUTs it to      *)
(* Prusa Connect.                                                          *)
(*                                                                         *)
(* The module holds two state machines over one set of variables:          *)
(*   Spec     the process: __main__ (configuration checks, per-camera      *)
(*            open / init / first capture, thread creation, signal wiring, *)
(*            start, join), capture() step by step, capture_thread() and   *)
(*            the signal handler, against a V4L2 device that owns the      *)
(*            single capture buffer;                                       *)
(*   NegSpec  init()'s resolution negotiation (lines 84-124) applied to    *)
(*            every bounded list of enumerated frame sizes.                *)
(***************************************************************************)
EXTENDS Integers, Sequences, FiniteSets, TLC

\* ------------------------------------------------------------------ bounds

\* The cameras a configuration file may list, in file order.
CamIds == {1, 2}

\* Interval waits the capture_threads may time out of, all cameras together
\* (the loops are unbounded).
MaxCycles == 2

\* buf.length, the size in bytes of the mapped buffer.
MaxFrame == 2

\* ----------------------------------------------------------- program state

VARIABLES
    \* command line and configuration (read once, never written)
    oneshot,      \* args.oneshot
    cameras,      \* config['camera']: a sequence of [name, token] presence flags
    \* __main__
    mainPc,       \* position of the main path
    idx,          \* index in cameras (for loops of lines 240, 277, 280)
    fatal,        \* the uncaught exception that ended the process, or "none"
    threads,      \* the list `threads` (camera indexes, in append order)
    handlers,     \* SIGINT/SIGTERM are wired to _signal_handler
    stop,         \* the threading.Event `stop`
    \* per camera: the device and the session on it
    opened,       \* open(dev) returned a file object
    closes,       \* number of vd.close() calls
    streaming,    \* VIDIOC_STREAMON succeeded
    maps,         \* number of REQBUFS + mmap set-ups
    bufState,     \* the driver's state of buffer 0: dequeued, queued, done
    \* per camera: capture() and capture_thread()
    cpc,          \* position inside capture(), "none" outside it
    thr,          \* none, created, wait, capture, stopped
    cycles,       \* interval waits that timed out (loop iterations begun)
    captures,     \* calls of capture()
    uploads,      \* calls of requests.put()
    lastResult,   \* how the most recent capture() ended
    errlog,       \* "Error updating frame" lines printed by capture_thread
    inflight,     \* calls of capture() that have not returned or raised
    \* per camera: the frame in the mapped buffer
    bytesused,    \* buf.bytesused, as the last VIDIOC_DQBUF set it
    total,        \* the `total` of the MMapStreamer of the latest upload
    mmPos,        \* the read position of the mmap object mm
    \* init(), resolution negotiation (lines 84-124)
    sizes,        \* what VIDIOC_ENUM_FRAMESIZES reports, by index
    config_res,   \* config['resolution'] as text, or None
    negPc,        \* position inside init()
    c_width,      \* the requested width, parsed
    c_height,     \* the requested height, parsed
    config_res_found,
    size_index,   \* size.index
    max_pixels,
    fmt_width,    \* fmt.fmt.pix.width
    fmt_height,   \* fmt.fmt.pix.height
    warnings,     \* "Resolution not supported" lines printed to stderr
    \* get_device() and the open of lines 252-260
    listing,      \* /sys/class/video4linux: entries [f, raw] in listdir order
    camera_name,  \* cam_config['name']
    cfg_dev,      \* cam_config['dev'], or None
    devPc,        \* position in lines 252-260
    dev,          \* the local `dev` of __main__
    resolves,     \* calls of get_device()
    openCalls,    \* the paths passed to open(), in call order
    \* the fingerprint default of lines 246-249
    fp_name,      \* cam_config['name']
    fpPc,         \* before or after lines 246-249
    fingerprint,  \* cam_config['fingerprint'], or None
    \* one MMapStreamer (lines 151-168) and the mmap object under it
    mmapData,     \* the bytes of the mapping
    mmapPos,      \* the mapping's read position
    startPos,     \* the mapping's read position when the streamer was built
    n_total,      \* the `total` the streamer was built with
    remaining,    \* self.remaining
    block,        \* self.block
    len_,         \* self.len
    returned,     \* the data of all read() calls so far, concatenated
    last_amount,  \* the amount of the latest read() call, 0 before any
    last_data,    \* what the latest read() call returned
    raised        \* the exception a read() call raised, or "none"

cfgVars == <<oneshot, cameras>>
mainVars == <<mainPc, idx, fatal, threads, handlers, stop>>
devVars == <<opened, closes, streaming, maps, bufState>>
capVars == <<cpc, thr, cycles, captures, uploads, lastResult, errlog, inflight>>
bufVars == <<bytesused, total, mmPos>>
lifeVars == <<cfgVars, mainVars, devVars, capVars, bufVars>>
negVars == <<sizes, config_res, negPc, c_width, c_height, config_res_found,
             size_index, max_pixels, fmt_width, fmt_height, warnings>>
resVars == <<listing, camera_name, cfg_dev, devPc, dev, resolves, openCalls>>
\* What the process leaves alone, and what the negotiation leaves alone.
fpVars == <<fp_name, fpPc, fingerprint>>
streamVars == <<mmapData, mmapPos, startPos, n_total, remaining, block, len_,
                returned, last_amount, last_data, raised>>
pureVars == <<negVars, resVars, fpVars, streamVars>>
restOfNeg == <<lifeVars, resVars, fpVars, streamVars>>
restOfRes == <<lifeVars, negVars, fpVars, streamVars>>
restOfFp == <<lifeVars, negVars, resVars, streamVars>>
restOfStream == <<lifeVars, negVars, resVars, fpVars>>
vars == <<lifeVars, negVars, resVars, fpVars, streamVars>>

NCams == Len(cameras)

\* config has no 'resolution' key.
None == <<"None">>

\* A configured camera entry: whether 'name' and 'token' are present.
CamConfigs == [name : BOOLEAN, token : BOOLEAN]

\* The camera lists a configuration file can hold (empty: no 'camera' key).
CameraLists ==
    UNION {[1..n -> CamConfigs] : n \in {0} \cup CamIds}

\* The process at its start, for a given command line and configuration.
LifeStart(o, cams) ==
    /\ oneshot = o
    /\ cameras = cams
    /\ mainPc = "load"
    /\ idx = 0
    /\ fatal = "none"
    /\ threads = <<>>
    /\ handlers = FALSE
    /\ stop = FALSE
    /\ opened = [c \in CamIds |-> FALSE]
    /\ closes = [c \in CamIds |-> 0]
    /\ streaming = [c \in CamIds |-> FALSE]
    /\ maps = [c \in CamIds |-> 0]
    /\ bufState = [c \in CamIds |-> "none"]
    /\ cpc = [c \in CamIds |-> "none"]
    /\ thr = [c \in CamIds |-> "none"]
    /\ cycles = [c \in CamIds |-> 0]
    /\ captures = [c \in CamIds |-> 0]
    /\ uploads = [c \in CamIds |-> 0]
    /\ lastResult = [c \in CamIds |-> "none"]
    /\ errlog = [c \in CamIds |-> 0]
    /\ inflight = [c \in CamIds |-> 0]
    /\ bytesused = [c \in CamIds |-> 0]
    /\ total = [c \in CamIds |-> 0]
    /\ mmPos = [c \in CamIds |-> 0]

\* The negotiation variables before init() reaches line 84.
NegStart(enumerated, res) ==
    /\ sizes = enumerated
    /\ config_res = res
    /\ negPc = "parse"
    /\ c_width = 0
    /\ c_height = 0
    /\ config_res_found = FALSE
    /\ size_index = 0
    /\ max_pixels = 0
    /\ fmt_width = 0
    /\ fmt_height = 0
    /\ warnings = <<>>

\* The device resolution variables before line 252.
ResStart(entries, name, explicit) ==
    /\ listing = entries
    /\ camera_name = name
    /\ cfg_dev = explicit
    /\ devPc = "resolve"
    /\ dev = None
    /\ resolves = 0
    /\ openCalls = <<>>

\* The camera entry before line 246.
FpStart(name, configured) ==
    /\ fp_name = name
    /\ fpPc = "default"
    /\ fingerprint = configured

\* MMapStreamer.__init__ (lines 152-159) over a mapping at position pos.
StreamStart(data, pos, tot, blk) ==
    /\ mmapData = data
    /\ mmapPos = pos
    /\ startPos = pos
    /\ n_total = tot
    /\ remaining = tot
    /\ block = blk
    /\ len_ = tot
    /\ returned = <<>>
    /\ last_amount = 0
    /\ last_data = <<>>
    /\ raised = "none"

Init ==
    /\ \E o \in BOOLEAN, cams \in CameraLists : LifeStart(o, cams)
    /\ NegStart(<<>>, None)
    /\ ResStart(<<>>, <<>>, None)
    /\ FpStart(<<>>, None)
    /\ StreamStart(<<>>, 0, 0, 1)

\* The process is running: no uncaught exception, main has not returned.
Alive == mainPc \notin {"failed", "exit"}

\* The file object vd is open.
VdOpen(c) == opened[c] /\ closes[c] = 0

\* ------------------------------------------------------------- __main__

\* An exception leaves __main__ uncaught: the interpreter prints it and the
\* process ends. No handler on this path closes a device.
Die(why) ==
    /\ mainPc' = "failed"
    /\ fatal' = why

\* load_config: no camera list raises ValueError.
LoadConfig ==
    /\ mainPc = "load"
    /\ IF NCams < 1
       THEN Die("config") /\ idx' = idx
       ELSE mainPc' = "validate" /\ idx' = 1 /\ fatal' = fatal
    /\ UNCHANGED <<pureVars, cfgVars, bufVars, threads, handlers, stop, devVars, capVars>>

\* Lines 241-251, for the camera the for loop has reached: the name and
\* token checks, then the fingerprint and url defaults.
Validate ==
    /\ mainPc = "validate"
    /\ IF ~cameras[idx].name \/ ~cameras[idx].token
       THEN Die("config")
       ELSE mainPc' = "open" /\ fatal' = fatal
    /\ UNCHANGED <<pureVars, cfgVars, bufVars, idx, threads, handlers, stop, devVars, capVars>>

\* Lines 252-260: resolve the device path and open it. A failure is caught
\* by the except of line 269 and re-raised as RuntimeError.
OpenDevice ==
    /\ mainPc = "open"
    /\ \E ok \in BOOLEAN :
         IF ok
         THEN /\ opened' = [opened EXCEPT ![idx] = TRUE]
              /\ mainPc' = "querycap"
              /\ fatal' = fatal
         ELSE /\ Die("open")
              /\ opened' = opened
    /\ UNCHANGED <<pureVars, cfgVars, bufVars, idx, threads, handlers, stop,
                   closes, streaming, maps, bufState, capVars>>

\* init(), lines 78-81: VIDIOC_QUERYCAP and the capture capability test.
InitQueryCap ==
    /\ mainPc = "querycap"
    /\ \E ok \in BOOLEAN :
         IF ok THEN mainPc' = "format" /\ fatal' = fatal
               ELSE Die("querycap")
    /\ UNCHANGED <<pureVars, cfgVars, bufVars, idx, threads, handlers, stop, devVars, capVars>>

\* init(), lines 84-124: the resolution is negotiated (NegSpec below) and
\* applied with VIDIOC_S_FMT.
InitFormat ==
    /\ mainPc = "format"
    /\ \E ok \in BOOLEAN :
         IF ok THEN mainPc' = "buffer" /\ fatal' = fatal
               ELSE Die("format")
    /\ UNCHANGED <<pureVars, cfgVars, bufVars, idx, threads, handlers, stop, devVars, capVars>>

\* init(), lines 127-141: REQBUFS (count 1), QUERYBUF and mmap.
InitBuffer ==
    /\ mainPc = "buffer"
    /\ \E ok \in BOOLEAN :
         IF ok
         THEN /\ maps' = [maps EXCEPT ![idx] = @ + 1]
              /\ bufState' = [bufState EXCEPT ![idx] = "dequeued"]
              /\ mainPc' = "streamon"
              /\ fatal' = fatal
         ELSE /\ Die("buffer")
              /\ UNCHANGED <<maps, bufState>>
    /\ UNCHANGED <<pureVars, cfgVars, bufVars, idx, threads, handlers, stop,
                   opened, closes, streaming, capVars>>

\* An ioctl whose failure goes unnoticed: init() carries on.
IoctlErrorIgnored(ok) == TRUE

\* Line 147, fcntl.ioctl: a failing ioctl raises OSError, so init() goes on
\* only when the ioctl succeeded.
IoctlPasses(ok) == ok

\* init(), lines 144-147: VIDIOC_STREAMON; then line 262 calls capture().
InitStreamOn ==
    /\ mainPc = "streamon"
    /\ \E ok \in BOOLEAN :
         IF IoctlPasses(ok)
         THEN /\ streaming' = [streaming EXCEPT ![idx] = ok]
              /\ mainPc' = "capture"
              /\ cpc' = [cpc EXCEPT ![idx] = "qbuf"]
              /\ captures' = [captures EXCEPT ![idx] = @ + 1]
              /\ inflight' = [inflight EXCEPT ![idx] = @ + 1]
              /\ fatal' = fatal
         ELSE /\ Die("streamon")
              /\ UNCHANGED <<streaming, cpc, captures, inflight>>
    /\ UNCHANGED <<pureVars, cfgVars, bufVars, idx, threads, handlers, stop,
                   opened, closes, maps, bufState,
                   thr, cycles, uploads, lastResult, errlog>>

\* The oneshot flag ignored: every run is taken to be continuous.
OneshotIgnored == FALSE

\* Lines 263 and 273, the test of args.oneshot.
OneshotRun == oneshot

\* Line 266 with the thread started as soon as it is constructed.
NewThreadStarted == "wait"

\* Lines 266-268: threading.Thread(...) constructs the thread; it does not
\* run before t.start().
NewThread == "created"

\* Lines 263-268, after capture() returned: close the device (oneshot) or
\* create, without starting, the camera's thread; then the next camera, or
\* the end of the for loop (line 273).
AfterFirstCapture ==
    /\ mainPc = "post"
    /\ IF OneshotRun
       THEN /\ closes' = [closes EXCEPT ![idx] = @ + 1]
            /\ UNCHANGED <<threads, thr>>
       ELSE /\ threads' = Append(threads, idx)
            /\ thr' = [thr EXCEPT ![idx] = NewThread]
            /\ closes' = closes
    /\ IF idx < NCams
       THEN mainPc' = "validate" /\ idx' = idx + 1
       ELSE mainPc' = (IF OneshotRun THEN "exit" ELSE "signals") /\ idx' = idx
    /\ UNCHANGED <<pureVars, cfgVars, bufVars, fatal, handlers, stop,
                   opened, streaming, maps, bufState,
                   cpc, cycles, captures, uploads, lastResult, errlog, inflight>>

\* Lines 274-275: SIGINT and SIGTERM now call _signal_handler.
InstallHandlers ==
    /\ mainPc = "signals"
    /\ handlers' = TRUE
    /\ mainPc' = "start"
    /\ idx' = 1
    /\ UNCHANGED <<pureVars, cfgVars, bufVars, fatal, threads, stop, devVars, capVars>>

\* Lines 277-278: t.start() for the next thread of the list.
StartThread ==
    /\ mainPc = "start"
    /\ idx <= Len(threads)
    /\ thr' = [thr EXCEPT ![threads[idx]] = "wait"]
    /\ IF idx < Len(threads)
       THEN idx' = idx + 1 /\ mainPc' = mainPc
       ELSE idx' = 1 /\ mainPc' = "join"
    /\ UNCHANGED <<pureVars, cfgVars, bufVars, fatal, threads, handlers, stop, devVars,
                   cpc, cycles, captures, uploads, lastResult, errlog, inflight>>

\* Lines 280-281: t.join() returns once that thread has ended.
JoinThread ==
    /\ mainPc = "join"
    /\ thr[threads[idx]] = "stopped"
    /\ IF idx < Len(threads)
       THEN idx' = idx + 1 /\ mainPc' = mainPc
       ELSE idx' = idx /\ mainPc' = "exit"
    /\ UNCHANGED <<pureVars, cfgVars, bufVars, fatal, threads, handlers, stop, devVars, capVars>>

\* _signal_handler (lines 213-215), run on SIGINT or SIGTERM once wired.
SignalHandler ==
    /\ Alive
    /\ handlers
    /\ ~stop
    /\ stop' = TRUE
    /\ UNCHANGED <<pureVars, cfgVars, bufVars, mainPc, idx, fatal, threads, handlers,
                   devVars, capVars>>

\* -------------------------------------------------------------- capture()

\* capture() is running for camera c: on the main path (line 262) or in the
\* camera's thread (line 202).
InMain(c) == mainPc = "capture" /\ idx = c
InThread(c) == thr[c] = "capture"
Capturing(c) == cpc[c] # "none" /\ Alive /\ (InMain(c) \/ InThread(c))

\* capture() returns normally to its caller.
Return(c) ==
    /\ cpc' = [cpc EXCEPT ![c] = "none"]
    /\ inflight' = [inflight EXCEPT ![c] = @ - 1]
    /\ lastResult' = [lastResult EXCEPT ![c] = "ok"]
    /\ IF InMain(c)
       THEN mainPc' = "post" /\ thr' = thr
       ELSE mainPc' = mainPc /\ thr' = [thr EXCEPT ![c] = "wait"]
    /\ UNCHANGED <<fatal, errlog>>

\* capture_thread catching TimeoutError only: any other exception leaves the
\* loop and ends the thread.
RaiseCatchesTimeoutOnly(c, err) ==
    /\ cpc' = [cpc EXCEPT ![c] = "none"]
    /\ inflight' = [inflight EXCEPT ![c] = @ - 1]
    /\ lastResult' = [lastResult EXCEPT ![c] = err]
    /\ IF InMain(c)
       THEN /\ mainPc' = "failed"
            /\ fatal' = "capture"
            /\ UNCHANGED <<thr, errlog>>
       ELSE /\ thr' = [thr EXCEPT ![c] = IF err = "timeout" THEN "wait" ELSE "stopped"]
            /\ errlog' = [errlog EXCEPT ![c] = IF err = "timeout" THEN @ + 1 ELSE @]
            /\ UNCHANGED <<mainPc, fatal>>

\* The first capture's failure printed and passed over on the main path, as
\* the loop does, instead of re-raised.
RaiseLoggedEverywhere(c, err) ==
    /\ cpc' = [cpc EXCEPT ![c] = "none"]
    /\ inflight' = [inflight EXCEPT ![c] = @ - 1]
    /\ lastResult' = [lastResult EXCEPT ![c] = err]
    /\ errlog' = [errlog EXCEPT ![c] = @ + 1]
    /\ IF InMain(c)
       THEN mainPc' = "post" /\ UNCHANGED <<thr, fatal>>
       ELSE thr' = [thr EXCEPT ![c] = "wait"] /\ UNCHANGED <<mainPc, fatal>>

\* capture() raises: on the main path the except of line 269 re-raises
\* RuntimeError and the process ends; in capture_thread the except of line
\* 203 prints the error and the loop goes back to stop.wait.
Raise(c, err) ==
    /\ cpc' = [cpc EXCEPT ![c] = "none"]
    /\ inflight' = [inflight EXCEPT ![c] = @ - 1]
    /\ lastResult' = [lastResult EXCEPT ![c] = err]
    /\ IF InMain(c)
       THEN Die("capture") /\ UNCHANGED <<thr, errlog>>
       ELSE /\ thr' = [thr EXCEPT ![c] = "wait"]
            /\ errlog' = [errlog EXCEPT ![c] = @ + 1]
            /\ UNCHANGED <<mainPc, fatal>>

\* Line 173, VIDIOC_QBUF of buffer 0. The driver takes a buffer that is
\* dequeued; it rejects one it still holds (queued or done) with EINVAL.
QBuf(c) ==
    /\ Capturing(c)
    /\ cpc[c] = "qbuf"
    /\ IF bufState[c] = "dequeued"
       THEN /\ bufState' = [bufState EXCEPT ![c] = "queued"]
            /\ cpc' = [cpc EXCEPT ![c] = "select"]
            /\ UNCHANGED <<mainPc, fatal, thr, lastResult, errlog, inflight>>
       ELSE /\ Raise(c, "qbuf_error")
            /\ bufState' = bufState
    /\ UNCHANGED <<pureVars, cfgVars, bufVars, idx, threads, handlers, stop,
                   opened, closes, streaming, maps,
                   cycles, captures, uploads>>

\* The device fills the queued buffer with a frame: it becomes readable.
DeviceFrame(c) ==
    /\ Alive
    /\ VdOpen(c)
    /\ streaming[c]
    /\ bufState[c] = "queued"
    /\ bufState' = [bufState EXCEPT ![c] = "done"]
    /\ UNCHANGED <<pureVars, cfgVars, bufVars, mainVars, opened, closes, streaming, maps, capVars>>

\* Lines 174-177, select() with CAMERA_WAIT_TIMEOUT: readable when a frame
\* is done, else the wait times out and TimeoutError is raised.
Select(c) ==
    /\ Capturing(c)
    /\ cpc[c] = "select"
    /\ IF bufState[c] = "done"
       THEN /\ cpc' = [cpc EXCEPT ![c] = "dqbuf"]
            /\ UNCHANGED <<mainPc, fatal, thr, lastResult, errlog, inflight>>
       ELSE Raise(c, "timeout")
    /\ UNCHANGED <<pureVars, cfgVars, bufVars, idx, threads, handlers, stop, devVars,
                   cycles, captures, uploads>>

\* A streamer told to send the whole mapped buffer.
StreamWholeBuffer(used) == MaxFrame

\* Line 190, MMapStreamer(mm, buf.bytesused): the total of the streamer.
StreamTotal(used) == used

\* Line 178, VIDIOC_DQBUF: the frame is handed over (bytesused is set), or
\* the ioctl fails (EIO); on failure the driver may or may not have
\* dequeued the buffer. After a dequeue, lines 183-191 build the streamer
\* over mm and call requests.put().
DQBuf(c) ==
    /\ Capturing(c)
    /\ cpc[c] = "dqbuf"
    /\ \/ /\ bufState' = [bufState EXCEPT ![c] = "dequeued"]
          /\ \E used \in 1..MaxFrame :
               /\ bytesused' = [bytesused EXCEPT ![c] = used]
               /\ total' = [total EXCEPT ![c] = StreamTotal(used)]
          /\ cpc' = [cpc EXCEPT ![c] = "put"]
          /\ uploads' = [uploads EXCEPT ![c] = @ + 1]
          /\ UNCHANGED <<mainPc, fatal, thr, lastResult, errlog, inflight>>
       \/ /\ Raise(c, "dqbuf_error")
          /\ \E s \in {"done", "dequeued"} :
               bufState' = [bufState EXCEPT ![c] = s]
          /\ UNCHANGED <<uploads, bytesused, total>>
    /\ UNCHANGED <<pureVars, cfgVars, mmPos, idx, threads, handlers, stop,
                   opened, closes, streaming, maps, cycles, captures>>

\* mm.read(n) of line 166: the position moves by what was read, at most to
\* the end of the mapping.
MmRead(pos, n) == IF pos + n > MaxFrame THEN MaxFrame ELSE pos + n

\* Lines 183-194, requests.put() in progress comes back. With a response,
\* the body was read through the streamer, line 192 rewinds mm and line 193
\* returns (2xx) or raises HTTPError. With a transport exception, put
\* raises after the streamer has read some part of the frame, and line 192
\* is not reached.
Put(c) ==
    /\ Capturing(c)
    /\ cpc[c] = "put"
    /\ \/ /\ mmPos' = [mmPos EXCEPT ![c] = 0]
          /\ \/ Return(c)
             \/ Raise(c, "http_error")
       \/ /\ \E n \in 0..total[c] :
               mmPos' = [mmPos EXCEPT ![c] = MmRead(@, n)]
          /\ Raise(c, "transport_error")
    /\ UNCHANGED <<pureVars, cfgVars, bytesused, total, idx, threads, handlers,
                   stop, devVars, cycles, captures, uploads>>

\* ------------------------------------------------------- capture_thread()

\* A loop that sleeps for the interval without looking at the event.
StopNeverSeen == FALSE

\* Line 200, what stop.wait(timeout=rate) returns: whether the event is set.
StopWait == stop

\* The loop iterations begun so far by the threads of the cameras in S.
RECURSIVE CyclesBegun(_)
CyclesBegun(S) ==
    IF S = {} THEN 0
    ELSE LET c == CHOOSE x \in S : TRUE
         IN cycles[c] + CyclesBegun(S \ {c})

\* A timer that fires every interval, whether or not the capture it
\* started last has come back.
IntervalElapsed(c) == thr[c] \in {"wait", "capture"}

\* Lines 200-208: the loop is in stop.wait only once the capture() it
\* called (a blocking call) has returned or raised.
InStopWait(c) == thr[c] = "wait"

\* Line 200, stop.wait(timeout=rate) returns False: the interval elapsed
\* with the event clear, and line 202 calls capture().
WaitTimeout(c) ==
    /\ InStopWait(c)
    /\ ~StopWait
    /\ CyclesBegun(CamIds) < MaxCycles
    /\ thr' = [thr EXCEPT ![c] = "capture"]
    /\ cpc' = [cpc EXCEPT ![c] = "qbuf"]
    /\ cycles' = [cycles EXCEPT ![c] = @ + 1]
    /\ captures' = [captures EXCEPT ![c] = @ + 1]
    /\ inflight' = [inflight EXCEPT ![c] = @ + 1]
    /\ UNCHANGED <<pureVars, cfgVars, bufVars, mainVars, devVars, uploads, lastResult, errlog>>

\* Line 200, stop.wait returns True: the loop ends and the finally of line
\* 209 closes the device; the thread is over.
WaitStopped(c) ==
    /\ thr[c] = "wait"
    /\ StopWait
    /\ thr' = [thr EXCEPT ![c] = "stopped"]
    /\ closes' = [closes EXCEPT ![c] = @ + 1]
    /\ UNCHANGED <<pureVars, cfgVars, bufVars, mainVars, opened, streaming, maps, bufState,
                   cpc, cycles, captures, uploads, lastResult, errlog, inflight>>

\* ------------------------------------------------------------ the process

Main ==
    \/ LoadConfig
    \/ Validate
    \/ OpenDevice
    \/ InitQueryCap
    \/ InitFormat
    \/ InitBuffer
    \/ InitStreamOn
    \/ AfterFirstCapture
    \/ InstallHandlers
    \/ StartThread
    \/ JoinThread

CaptureStep(c) ==
    \/ QBuf(c)
    \/ Select(c)
    \/ DQBuf(c)
    \/ Put(c)

ThreadStep(c) ==
    \/ WaitTimeout(c)
    \/ WaitStopped(c)

Next ==
    \/ Main
    \/ SignalHandler
    \/ \E c \in CamIds : CaptureStep(c)
    \/ \E c \in CamIds : ThreadStep(c)
    \/ \E c \in CamIds : DeviceFrame(c)

Spec == Init /\ [][Next]_vars

\* The interpreter keeps running every thread that can run: the main path,
\* each capture() in progress (select has a timeout; requests.put is taken
\* to return) and each loop's stop.wait. Signals and frames come when they
\* come.
FairSpec ==
    /\ Spec
    /\ WF_vars(Main)
    /\ \A c \in CamIds : WF_vars(CaptureStep(c)) /\ WF_vars(ThreadStep(c))

\* ----------------------------------------------- the process: what is claimed

Configured == 1..NCams
Started(c) == thr[c] \in {"wait", "capture", "stopped"}
CaptureFailures ==
    {"timeout", "qbuf_error", "dqbuf_error", "http_error", "transport_error"}

\* Camera c's capture() ends in this step by raising.
CaptureRaises(c) ==
    cpc[c] # "none" /\ cpc'[c] = "none" /\ lastResult'[c] \in CaptureFailures

\* C1 (as claimed): a capture cycle that times out leaves the device open
\* and streaming, and the enqueue of a later cycle on that session, made
\* when the device has a frame ready, is accepted, so that the cycle goes on
\* to its wait and dequeue.
C1_RetryAfterTimeoutSucceeds ==
    [][\A c \in CamIds :
        /\ (cpc[c] = "select" /\ CaptureRaises(c)) =>
              /\ lastResult'[c] = "timeout"
              /\ opened'[c] /\ closes'[c] = 0
              /\ streaming'[c] = streaming[c]
        /\ (/\ lastResult[c] = "timeout"
            /\ cpc[c] = "qbuf"
            /\ bufState[c] = "done"
            /\ cpc'[c] # "qbuf") => cpc'[c] = "select"
      ]_vars

\* C2: in a camera's loop every failure of capture() - a timeout, a failed
\* ioctl, a failed upload - is printed and takes the loop back to the
\* interval wait; the thread ends only from the interval wait, with the
\* stop event set.
C2_LoopSurvivesFailures ==
    [][\A c \in CamIds :
        /\ (thr[c] = "capture" /\ CaptureRaises(c)) =>
              /\ thr'[c] = "wait"
              /\ errlog'[c] = errlog[c] + 1
              /\ mainPc' = mainPc /\ fatal' = fatal
        /\ (thr[c] = "capture" /\ thr'[c] # "capture") => thr'[c] = "wait"
        /\ (thr[c] # "stopped" /\ thr'[c] = "stopped") =>
              thr[c] = "wait" /\ stop
      ]_vars

\* C2 witness: a loop back at its interval wait, still running, after two
\* failed cycles, the last one an upload failure.
C2_Witness ==
    \E c \in CamIds :
        /\ thr[c] = "wait"
        /\ ~stop
        /\ errlog[c] >= 2
        /\ lastResult[c] \in {"http_error", "transport_error"}

\* C3 (as claimed): every session that was opened is closed exactly once:
\* never twice, and once the process has ended (normally or on a failed
\* initialization) every opened device has had its close.
C3_OpenedClosedExactlyOnce ==
    \A c \in CamIds :
        /\ closes[c] <= 1
        /\ (~Alive /\ opened[c]) => closes[c] = 1

\* C4: after the stop event is set, a capture or upload in progress goes on
\* to its own end with the device open, a loop at its interval wait starts
\* no new cycle, a thread ends only from the interval wait and closes its
\* device as it ends; and every camera's loop does end with its device
\* closed once.
C4_CooperativeStop ==
    /\ [][\A c \in CamIds :
            /\ (stop /\ thr[c] = "capture") =>
                  /\ thr'[c] \in {"capture", "wait"}
                  /\ closes'[c] = closes[c]
                  /\ (cpc'[c] # cpc[c] =>
                        \/ cpc'[c] = "none"
                        \/ <<cpc[c], cpc'[c]>> \in
                             {<<"qbuf", "select">>, <<"select", "dqbuf">>,
                              <<"dqbuf", "put">>})
            /\ (stop /\ thr[c] = "wait") => thr'[c] \in {"wait", "stopped"}
            /\ (thr[c] # "stopped" /\ thr'[c] = "stopped") =>
                  /\ stop /\ thr[c] = "wait"
                  /\ closes'[c] = closes[c] + 1
       ]_vars
    /\ (stop ~> \A c \in Configured : thr[c] = "stopped" /\ closes[c] = 1)

\* C4 witness: the stop event is set, one loop has seen it and closed its
\* device, another camera's upload is still in progress.
C4_Witness ==
    /\ stop
    /\ \E c, d \in CamIds :
         /\ thr[c] = "stopped" /\ closes[c] = 1
         /\ thr[d] = "capture" /\ cpc[d] = "put" /\ closes[d] = 0

\* C5: in continuous mode, when the initialization of a camera has failed,
\* no camera's thread has been started, those of the cameras initialized
\* before it included; and the process has ended.
C5_InitFailureStartsNoLoop ==
    (~oneshot /\ fatal # "none") =>
        /\ mainPc = "failed"
        /\ \A c \in CamIds : ~Started(c)

\* C5 witness: the second camera's initialization failed after the first
\* camera's thread was created.
C5_Witness ==
    /\ ~oneshot
    /\ fatal \in {"open", "querycap", "format", "buffer", "streamon"}
    /\ idx = 2
    /\ thr[1] = "created"

\* C6 (as claimed): in oneshot mode, once the process has ended after valid
\* configuration and successful initializations, every configured camera has
\* had exactly one capture and exactly one upload attempt, and no thread
\* was created.
C6_OneshotOnePerCamera ==
    (oneshot /\ ~Alive /\ fatal \in {"none", "capture"}) =>
        \A c \in Configured :
            captures[c] = 1 /\ uploads[c] = 1 /\ thr[c] = "none"

\* C6 (amended): in oneshot mode no thread is ever created, no camera gets
\* more than one capture or more uploads than captures; a run that ends
\* without failure has made exactly one capture and one upload attempt for
\* every configured camera and closed it; a failed first capture ends the
\* process, and the cameras after it get no capture and no upload.
C6_OneshotAtMostOnePerCamera ==
    oneshot =>
        /\ threads = <<>>
        /\ \A c \in CamIds :
             thr[c] = "none" /\ captures[c] <= 1 /\ uploads[c] <= captures[c]
        /\ mainPc = "exit" =>
             \A c \in Configured :
                 captures[c] = 1 /\ uploads[c] = 1 /\ closes[c] = 1
        /\ fatal = "capture" =>
             \A c \in Configured :
                 c > idx => captures[c] = 0 /\ uploads[c] = 0

\* C6 witness: a oneshot run over two cameras that ended normally.
C6_Witness ==
    /\ oneshot
    /\ mainPc = "exit"
    /\ NCams = 2
    /\ \A c \in Configured : captures[c] = 1 /\ uploads[c] = 1

\* C7 (as claimed): in continuous mode capture() runs only inside a
\* camera's loop, and no capture timeout or upload error ends the process.
C7_CaptureFailureNeverFatal ==
    ~oneshot =>
        \A c \in CamIds :
            /\ cpc[c] # "none" => thr[c] = "capture"
            /\ lastResult[c] \in {"timeout", "http_error", "transport_error"}
                   => mainPc # "failed"

\* C7 (amended): in continuous mode a camera's first capture and upload run
\* on the main path, before any thread is started, and a failure there is
\* fatal: the process ends and no loop starts. Every later capture runs in
\* the camera's own loop, where a failure never ends the process.
C7_OnlyFirstCaptureFatal ==
    ~oneshot =>
        \A c \in CamIds :
            /\ (cpc[c] # "none" /\ cycles[c] = 0) =>
                   /\ InMain(c)
                   /\ \A d \in CamIds : ~Started(d)
            /\ (cpc[c] # "none" /\ cycles[c] > 0) => thr[c] = "capture"
            /\ (lastResult[c] \in CaptureFailures /\ cycles[c] = 0) =>
                   /\ fatal = "capture" /\ mainPc = "failed" /\ idx = c
                   /\ \A d \in CamIds : ~Started(d)
            /\ (lastResult[c] \in CaptureFailures /\ cycles[c] > 0) =>
                   /\ fatal = "none" /\ mainPc # "failed"
                   /\ errlog[c] >= 1

\* C7 witness: one camera's loop has logged an upload failure and waits for
\* its next interval while the process runs on.
C7_Witness ==
    /\ ~oneshot
    /\ \E c \in CamIds :
         /\ thr[c] = "wait"
         /\ cycles[c] > 0
         /\ lastResult[c] = "transport_error"
         /\ errlog[c] >= 1
         /\ mainPc = "join"

\* C8 (as claimed): with no camera list, or with any camera entry lacking
\* its name or token, no device is ever opened, initialized or captured
\* from.
C8_ConfigErrorBeforeAnyDevice ==
    (NCams = 0 \/ \E i \in Configured : ~cameras[i].name \/ ~cameras[i].token)
        => \A c \in CamIds :
               ~opened[c] /\ maps[c] = 0 /\ ~streaming[c] /\ captures[c] = 0

\* C15: a capture() call is in progress on a camera only while its stream
\* is started and its device is open and not yet closed, in oneshot and in
\* continuous runs; a camera that was captured from has a started stream;
\* the buffer is requested and mapped once, before the stream is started,
\* and never again.
C15_CaptureOnlyWhileStreaming ==
    \A c \in CamIds :
        /\ cpc[c] # "none" => streaming[c] /\ VdOpen(c) /\ maps[c] = 1
        /\ captures[c] > 0 => streaming[c] /\ opened[c]
        /\ streaming[c] => maps[c] = 1
        /\ maps[c] <= 1

\* C15 witness: a loop thread inside its second capture() of the session,
\* after the first capture on the main path, on a stream started once.
C15_Witness ==
    \E c \in CamIds :
        /\ thr[c] = "capture"
        /\ cpc[c] = "select"
        /\ captures[c] >= 2
        /\ streaming[c]
        /\ maps[c] = 1

\* The main path is working on camera c's device (lines 252-268).
InSession(c) ==
    /\ mainPc \in {"open", "querycap", "format", "buffer", "streamon",
                   "capture", "post"}
    /\ idx = c

\* C16: each camera has at most one capture() call (enqueue, wait, dequeue,
\* upload) in progress at any time; the call in progress is run either by
\* the main path, before the camera's thread exists, or by the camera's own
\* thread, when the main path has left that camera's device; a camera's
\* running thread and the main path never work on that camera together.
C16_OneInFlightPerCamera ==
    \A c \in CamIds :
        /\ inflight[c] <= 1
        /\ inflight[c] = 1 <=> cpc[c] # "none"
        /\ (cpc[c] # "none" /\ Alive) =>
             \/ InMain(c) /\ thr[c] = "none"
             \/ InThread(c) /\ ~InSession(c)
        /\ thr[c] \in {"wait", "capture"} => ~InSession(c)

\* C16 witness: the threads of two cameras inside capture() at the same
\* time, one uploading and one waiting for its frame.
C16_Witness ==
    /\ thr[1] = "capture" /\ cpc[1] = "put"
    /\ thr[2] = "capture" /\ cpc[2] = "select"
    /\ inflight[1] = 1 /\ inflight[2] = 1

\* One step of the program, seen from camera c's capture cycle.
CycleStep(c) ==
    /\ (cpc'[c] = "select" /\ cpc[c] # "select") =>
         cpc[c] = "qbuf" /\ bufState'[c] = "queued"
    /\ (cpc'[c] = "dqbuf" /\ cpc[c] # "dqbuf") =>
         cpc[c] = "select" /\ bufState[c] = "done"
    /\ (cpc'[c] = "put" /\ cpc[c] # "put") =>
         /\ cpc[c] = "dqbuf"
         /\ bufState[c] = "done" /\ bufState'[c] = "dequeued"
         /\ total'[c] = bytesused'[c]
         /\ uploads'[c] = uploads[c] + 1
    /\ uploads'[c] # uploads[c] => cpc[c] = "dqbuf" /\ cpc'[c] = "put"
    /\ (CaptureRaises(c) /\ lastResult'[c] = "timeout") =>
         /\ cpc[c] = "select"
         /\ bufState'[c] = bufState[c]
         /\ uploads'[c] = uploads[c]
         /\ bytesused'[c] = bytesused[c]

\* C17: within a capture cycle the wait follows an accepted enqueue, the
\* dequeue follows a wait that found the device readable, and an upload is
\* begun only by a successful dequeue of that cycle, with a streamer whose
\* total is the bytesused of that dequeue; a cycle whose wait times out ends
\* at the wait, with no dequeue and no upload.
C17_CycleOrder == [][\A c \in CamIds : CycleStep(c)]_vars

\* C17 witness: a loop thread uploading a frame shorter than the buffer.
C17_Witness ==
    \E c \in CamIds :
        /\ thr[c] = "capture"
        /\ cpc[c] = "put"
        /\ bytesused[c] = 1
        /\ total[c] = 1
        /\ bufState[c] = "dequeued"

\* C18 (as claimed): whenever an upload starts, the read position of the
\* mapped region is 0, whatever cycles came before.
C18_UploadStartsAtZero ==
    \A c \in CamIds : cpc[c] = "put" => mmPos[c] = 0

\* C19 (as claimed): buffer 0 is enqueued only when it is not queued to the
\* device (VIDIOC_QBUF is issued only on a dequeued buffer), and dequeued
\* only when it is queued.
C19_EnqueueDequeueAlternate ==
    \A c \in CamIds :
        /\ (Capturing(c) /\ cpc[c] = "qbuf") => bufState[c] = "dequeued"
        /\ (Capturing(c) /\ cpc[c] = "dqbuf") => bufState[c] \in {"queued", "done"}

\* ------------------------------------------- init(): resolution negotiation

\* Frame sizes a device may enumerate, and the text a configuration may
\* give as 'resolution'.
MaxSizes == 3
MaxResLen == 3
Dims == {1, 2}
ResChars == {"1", "2", "x"}

\* One answer of VIDIOC_ENUM_FRAMESIZES: a discrete size, or a stepwise or
\* continuous range (which line 100 skips).
FrameSizes ==
    [type : {"discrete"}, width : Dims, height : Dims]
        \cup {[type |-> "stepwise", width |-> 0, height |-> 0]}

SizeLists == UNION {[1..n -> FrameSizes] : n \in 0..MaxSizes}
ResTexts == UNION {[1..n -> ResChars] : n \in 0..MaxResLen}

\* str.split('x'): the pieces between the separators.
RECURSIVE Split(_)
Split(s) ==
    IF \A i \in 1..Len(s) : s[i] # "x"
    THEN <<s>>
    ELSE LET k == CHOOSE i \in 1..Len(s) :
                      s[i] = "x" /\ \A j \in 1..(i - 1) : s[j] # "x"
         IN <<SubSeq(s, 1, k - 1)>> \o Split(SubSeq(s, k + 1, Len(s)))

DigitVal(ch) ==
    CASE ch = "0" -> 0 [] ch = "1" -> 1 [] ch = "2" -> 2 [] ch = "3" -> 3
      [] ch = "4" -> 4 [] ch = "5" -> 5 [] ch = "6" -> 6 [] ch = "7" -> 7
      [] ch = "8" -> 8 [] ch = "9" -> 9

IsDigit(ch) == ch \in {"0", "1", "2", "3", "4", "5", "6", "7", "8", "9"}

\* int(p) accepts p: a non-empty run of decimal digits.
IsInt(p) == Len(p) > 0 /\ \A i \in 1..Len(p) : IsDigit(p[i])

\* int(p) for such a p.
RECURSIVE IntOf(_)
IntOf(p) ==
    IF Len(p) = 0 THEN 0
    ELSE 10 * IntOf(SubSeq(p, 1, Len(p) - 1)) + DigitVal(p[Len(p)])

\* Line 86, c_width, c_height = map(int, config_res.split('x')): exactly
\* two pieces, both integers, or ValueError.
ParseRes(s) ==
    LET parts == Split(s)
    IN IF Len(parts) = 2 /\ IsInt(parts[1]) /\ IsInt(parts[2])
       THEN [ok |-> TRUE, width |-> IntOf(parts[1]), height |-> IntOf(parts[2])]
       ELSE [ok |-> FALSE, width |-> 0, height |-> 0]

\* The camera whose init() is modelled: config['name'].
CamName == "cam1"

\* Lines 84-94: read and parse the requested resolution, prepare fmt and
\* size. A malformed text raises ValueError out of init().
NegParse ==
    /\ negPc = "parse"
    /\ IF config_res = None
       THEN /\ negPc' = "enum"
            /\ UNCHANGED <<c_width, c_height>>
       ELSE IF ParseRes(config_res).ok
            THEN /\ c_width' = ParseRes(config_res).width
                 /\ c_height' = ParseRes(config_res).height
                 /\ negPc' = "enum"
            ELSE /\ negPc' = "failed"
                 /\ UNCHANGED <<c_width, c_height>>
    /\ config_res_found' = FALSE
    /\ max_pixels' = 0
    /\ size_index' = 0
    /\ UNCHANGED <<restOfNeg, sizes, config_res, fmt_width, fmt_height, warnings>>

\* Line 107 without any test: the last discrete size enumerated is taken.
TakesSizeAlways(match, curr_pixels) == TRUE

\* Line 107 with the comparison reversed: a smaller size replaces a larger.
TakesSizeReversed(match, curr_pixels) == match \/ curr_pixels <= max_pixels

\* Line 107 without the match test: only the area decides.
TakesSizeByAreaOnly(match, curr_pixels) == curr_pixels >= max_pixels

\* Line 107: whether the enumerated discrete size replaces the selection.
TakesSize(match, curr_pixels) == match \/ curr_pixels >= max_pixels

\* Lines 95-114, one turn of the while loop: VIDIOC_ENUM_FRAMESIZES at
\* size.index fails past the last entry (break); a discrete size that
\* matches the request, or whose area is at least max_pixels, is taken, and
\* a match ends the loop.
NegEnum ==
    /\ negPc = "enum"
    /\ IF size_index >= Len(sizes)
       THEN /\ negPc' = "check"
            /\ UNCHANGED <<size_index, max_pixels, fmt_width, fmt_height,
                           config_res_found>>
       ELSE LET size == sizes[size_index + 1]
                width == size.width
                height == size.height
                curr_pixels == width * height
                match == /\ config_res # None
                         /\ c_width = width
                         /\ c_height = height
            IN IF size.type = "discrete" /\ TakesSize(match, curr_pixels)
               THEN /\ fmt_width' = width
                    /\ fmt_height' = height
                    /\ max_pixels' = curr_pixels
                    /\ IF match
                       THEN /\ config_res_found' = TRUE
                            /\ negPc' = "check"
                            /\ size_index' = size_index
                       ELSE /\ config_res_found' = config_res_found
                            /\ negPc' = negPc
                            /\ size_index' = size_index + 1
               ELSE /\ size_index' = size_index + 1
                    /\ UNCHANGED <<max_pixels, fmt_width, fmt_height,
                                   config_res_found, negPc>>
    /\ UNCHANGED <<restOfNeg, sizes, config_res, c_width, c_height, warnings>>

\* Lines 115-123: the warning for a requested resolution that was not found.
NegCheck ==
    /\ negPc = "check"
    /\ IF config_res # None /\ ~config_res_found
       THEN warnings' = Append(warnings, [cam |-> CamName, res |-> config_res])
       ELSE warnings' = warnings
    /\ negPc' = "s_fmt"
    /\ UNCHANGED <<restOfNeg, sizes, config_res, c_width, c_height,
                   config_res_found, size_index, max_pixels,
                   fmt_width, fmt_height>>

\* Line 124, VIDIOC_S_FMT with the selected size: accepted, and init() goes
\* on to the buffer set-up of line 127, or rejected (OSError).
NegSetFmt ==
    /\ negPc = "s_fmt"
    /\ \E ok \in BOOLEAN : negPc' = IF ok THEN "reqbufs" ELSE "failed"
    /\ UNCHANGED <<restOfNeg, sizes, config_res, c_width, c_height,
                   config_res_found, size_index, max_pixels,
                   fmt_width, fmt_height, warnings>>

NegInit ==
    /\ LifeStart(FALSE, <<>>)
    /\ ResStart(<<>>, <<>>, None)
    /\ FpStart(<<>>, None)
    /\ StreamStart(<<>>, 0, 0, 1)
    /\ \E enumerated \in SizeLists, res \in ResTexts \cup {None} :
         NegStart(enumerated, res)

NegNext ==
    \/ NegParse
    \/ NegEnum
    \/ NegCheck
    \/ NegSetFmt

NegSpec == NegInit /\ [][NegNext]_vars

\* ------------------------------------------- negotiation: what is claimed

\* The request as init() reads it, and the enumerated discrete sizes.
Requested == ParseRes(config_res)
DiscreteIdx == {i \in 1..Len(sizes) : sizes[i].type = "discrete"}
Area(i) == sizes[i].width * sizes[i].height
IsRequested(i) ==
    sizes[i].width = Requested.width /\ sizes[i].height = Requested.height
RequestPresent ==
    config_res # None /\ Requested.ok /\ \E i \in DiscreteIdx : IsRequested(i)
RequestAbsent ==
    config_res # None /\ Requested.ok /\ \A i \in DiscreteIdx : ~IsRequested(i)

\* The enumeration is over: the selection is what S_FMT gets.
Negotiated == negPc \in {"check", "s_fmt", "reqbufs"}
    \/ (negPc = "failed" /\ (config_res = None \/ Requested.ok))

\* The selection is an enumerated discrete size of the largest area.
SelectedIsMaxArea ==
    \E i \in DiscreteIdx :
        /\ fmt_width = sizes[i].width
        /\ fmt_height = sizes[i].height
        /\ \A j \in DiscreteIdx : Area(j) <= Area(i)

\* C9: when the enumerated discrete sizes contain the requested resolution,
\* negotiation selects exactly the requested width and height, whatever
\* larger sizes come before or after it, and prints no warning.
C9_RequestedSizeSelected ==
    RequestPresent =>
        /\ warnings = <<>>
        /\ Negotiated =>
             fmt_width = Requested.width /\ fmt_height = Requested.height

\* C9 witness: the request was selected and applied although a larger size
\* was enumerated before it and another after it.
C9_Witness ==
    /\ negPc = "reqbufs"
    /\ RequestPresent
    /\ fmt_width = Requested.width /\ fmt_height = Requested.height
    /\ \E i, j, k \in DiscreteIdx :
         /\ i < j /\ j < k
         /\ IsRequested(j)
         /\ Area(i) > Area(j) /\ Area(k) > Area(j)

\* C10: when the enumerated discrete sizes do not contain the requested
\* resolution, negotiation selects an enumerated discrete size of maximum
\* area (if the device enumerated any), prints exactly one warning, naming
\* the camera, and goes on to apply the format: only S_FMT itself can fail.
C10_FallbackToMaxArea ==
    RequestAbsent =>
        /\ (Negotiated /\ DiscreteIdx # {}) => SelectedIsMaxArea
        /\ negPc \in {"parse", "enum", "check"} => warnings = <<>>
        /\ negPc \in {"s_fmt", "reqbufs", "failed"} =>
             warnings = <<[cam |-> CamName, res |-> config_res]>>

\* C10 witness: the fallback was applied for a device whose largest size is
\* not the last one it enumerated.
C10_Witness ==
    /\ negPc = "reqbufs"
    /\ RequestAbsent
    /\ Len(warnings) = 1
    /\ \E i, j \in DiscreteIdx : i < j /\ Area(i) > Area(j)

\* C11: when no resolution is requested, negotiation selects an enumerated
\* discrete size whose area is the maximum over all enumerated discrete
\* sizes (if the device enumerated any), in whatever order they come and
\* with ranges in between, and prints no warning.
C11_DefaultIsMaxArea ==
    config_res = None =>
        /\ warnings = <<>>
        /\ ~config_res_found
        /\ (negPc \in {"check", "s_fmt", "reqbufs", "failed"}
              /\ DiscreteIdx # {}) => SelectedIsMaxArea

\* C11 witness: the default was applied for a device that enumerated its
\* largest size first, then a range, then a smaller size.
C11_Witness ==
    /\ negPc = "reqbufs"
    /\ config_res = None
    /\ \E i, j, k \in 1..Len(sizes) :
         /\ i < j /\ j < k
         /\ sizes[i].type = "discrete"
         /\ sizes[j].type = "stepwise"
         /\ sizes[k].type = "discrete"
         /\ Area(i) > Area(k)
         /\ fmt_width = sizes[i].width /\ fmt_height = sizes[i].height

\* ------------------------------------------ get_device() and open(), 252-260

\* Names a device may report and a camera may be given, and the entries of
\* /sys/class/video4linux ("v" stands for the prefix "video").
MaxNameLen == 2
NameChars == {"a", "b"}
DevIds == {<<"v", "1">>, <<"v", "2">>, <<"v", "1", "0">>}

Names == UNION {[1..n -> NameChars] : n \in 0..MaxNameLen}

\* The content of a device's name file: the name and a newline.
RawNames == {n \o <<"\n">> : n \in Names}

\* os.listdir: each entry once, in any order.
Listings ==
    {l \in UNION {[1..n -> [f : DevIds, raw : RawNames]] :
                      n \in 0..Cardinality(DevIds)} :
        \A i, j \in 1..Len(l) : i # j => l[i].f # l[j].f}

\* An explicit cam_config['dev'].
ExplicitDevs == {<<"/dev/", "v", "7">>}

\* Line 68, str.rstrip(): trailing whitespace removed.
RECURSIVE Rstrip(_)
Rstrip(t) ==
    IF Len(t) > 0 /\ t[Len(t)] \in {"\n", " ", "\t"}
    THEN Rstrip(SubSeq(t, 1, Len(t) - 1))
    ELSE t

\* Line 69, `camera_name in name`: substring test.
Contains(name, sub) ==
    \E i \in 0..(Len(name) - Len(sub)) : SubSeq(name, i + 1, i + Len(sub)) = sub

\* The code point of a character of a device identifier.
CharCode(ch) ==
    CASE ch = "0" -> 48 [] ch = "1" -> 49 [] ch = "2" -> 50 [] ch = "v" -> 118

\* Line 70, f < dev on str: by the first differing character, a proper
\* prefix first.
RECURSIVE StrLess(_, _)
StrLess(a, b) ==
    IF Len(b) = 0 THEN FALSE
    ELSE IF Len(a) = 0 THEN TRUE
    ELSE IF a[1] # b[1] THEN CharCode(a[1]) < CharCode(b[1])
    ELSE StrLess(Tail(a), Tail(b))

\* The device number after the prefix, as an integer.
DevNumber(f) == IntOf(Tail(f))

\* Line 70 keeping the first match: later matches never replace it.
ReplacesNever(f, d) == d = None

\* Line 70 comparing device numbers instead of strings.
ReplacesByNumber(f, d) == d = None \/ DevNumber(f) < DevNumber(d)

\* Line 70: whether matching entry f replaces the device found so far.
Replaces(f, d) == d = None \/ StrLess(f, d)

\* Lines 64-71, the for loop over the listing from entry i on, dev = d.
RECURSIVE Scan(_, _, _)
Scan(entries, name, d) ==
    IF entries = <<>> THEN d
    ELSE LET f == Head(entries).f
             reported == Rstrip(Head(entries).raw)
         IN Scan(Tail(entries), name,
                 IF Contains(reported, name) /\ Replaces(f, d) THEN f ELSE d)

\* Line 72, '/dev/{}'.format(dev): None is formatted as the text "None".
DevPath(d) == <<"/dev/">> \o (IF d = None THEN <<"N", "o", "n", "e">> ELSE d)

\* get_device(camera_name), lines 62-72.
get_device(entries, name) == DevPath(Scan(entries, name, None))

\* Lines 254-259: the configured path, or get_device(); the bare raise of
\* line 259 for a result that is None.
ResolveDevice ==
    /\ devPc = "resolve"
    /\ IF cfg_dev # None
       THEN /\ dev' = cfg_dev
            /\ resolves' = resolves
            /\ devPc' = "open"
       ELSE /\ dev' = get_device(listing, camera_name)
            /\ resolves' = resolves + 1
            /\ devPc' = IF get_device(listing, camera_name) = None
                        THEN "failed" ELSE "open"
    /\ UNCHANGED <<restOfRes, listing, camera_name, cfg_dev, openCalls>>

\* Line 260, open(dev, 'rb+', buffering=0): a path that names no device node
\* cannot be opened; another open may fail too.
OpenPath ==
    /\ devPc = "open"
    /\ openCalls' = Append(openCalls, dev)
    /\ \E ok \in BOOLEAN :
         devPc' = IF ok /\ (dev \in ExplicitDevs
                             \/ \E i \in 1..Len(listing) : dev = DevPath(listing[i].f))
                  THEN "init" ELSE "failed"
    /\ UNCHANGED <<restOfRes, listing, camera_name, cfg_dev, dev, resolves>>

ResInit ==
    /\ LifeStart(FALSE, <<>>)
    /\ NegStart(<<>>, None)
    /\ FpStart(<<>>, None)
    /\ StreamStart(<<>>, 0, 0, 1)
    /\ \E entries \in Listings, name \in Names,
          explicit \in ExplicitDevs \cup {None} :
         ResStart(entries, name, explicit)

ResNext ==
    \/ ResolveDevice
    \/ OpenPath

ResSpec == ResInit /\ [][ResNext]_vars

\* ------------------------------------- device resolution: what is claimed

\* The entries whose reported name contains the camera's name.
Matching ==
    {i \in 1..Len(listing) : Contains(Rstrip(listing[i].raw), camera_name)}

\* get_device() has been called and has returned.
Resolved == cfg_dev = None /\ devPc # "resolve"

\* C12: when two or more entries have a name containing the camera's name,
\* get_device returns the path of the matching identifier that is smallest
\* in string order, wherever in the listing it stands.
C12_SmallestMatchingDevice ==
    (Resolved /\ Cardinality(Matching) >= 2) =>
        \E i \in Matching :
            /\ dev = <<"/dev/">> \o listing[i].f
            /\ \A j \in Matching : ~StrLess(listing[j].f, listing[i].f)

\* C12 witness: three matching entries, the smallest of them ("video1")
\* listed last and "video10" chosen over "video2" before it.
C12_Witness ==
    /\ Resolved
    /\ Cardinality(Matching) = 3
    /\ listing[1].f = <<"v", "2">>
    /\ listing[2].f = <<"v", "1", "0">>
    /\ listing[3].f = <<"v", "1">>
    /\ dev = <<"/dev/", "v", "1">>

\* C13 (as claimed): when no entry's name contains the camera's name, device
\* resolution fails: it yields no path and open() is never called.
C13_NoMatchNoOpen ==
    (Resolved /\ Matching = {}) =>
        /\ devPc = "failed"
        /\ dev = None
        /\ openCalls = <<>>

\* --------------------------------------- the fingerprint default, 246-249

\* Camera names: a word of one or two characters, repeated.
MaxRepeat == 26
FpChars == {"c", "a", "m", "1"}
FpWords == UNION {[1..n -> FpChars] : n \in 1..2} \cup {<<"c", "a", "m", "1">>}

RECURSIVE Repeat(_, _)
Repeat(w, k) == IF k = 0 THEN <<>> ELSE w \o Repeat(w, k - 1)

FpNames == {Repeat(w, k) : w \in FpWords, k \in 0..MaxRepeat}

\* A fingerprint given in the configuration.
ConfiguredFingerprints == {<<"f", "p">>}

\* bytes(name, 'utf8') for these (ASCII) characters.
Utf8Byte(ch) ==
    CASE ch = "c" -> 99 [] ch = "a" -> 97 [] ch = "m" -> 109 [] ch = "1" -> 49

Utf8(name) == [i \in 1..Len(name) |-> Utf8Byte(name[i])]

\* The base64 alphabet, by 6-bit value + 1.
B64Alphabet ==
    <<"A", "B", "C", "D", "E", "F", "G", "H", "I", "J", "K", "L", "M",
      "N", "O", "P", "Q", "R", "S", "T", "U", "V", "W", "X", "Y", "Z",
      "a", "b", "c", "d", "e", "f", "g", "h", "i", "j", "k", "l", "m",
      "n", "o", "p", "q", "r", "s", "t", "u", "v", "w", "x", "y", "z",
      "0", "1", "2", "3", "4", "5", "6", "7", "8", "9", "+", "/">>

B64Char(v) == B64Alphabet[v + 1]

\* base64.b64encode: three bytes to four characters, the last group padded
\* with "=".
RECURSIVE b64encode(_)
b64encode(b) ==
    IF Len(b) = 0 THEN <<>>
    ELSE IF Len(b) = 1 THEN
        <<B64Char(b[1] \div 4), B64Char((b[1] % 4) * 16), "=", "=">>
    ELSE IF Len(b) = 2 THEN
        <<B64Char(b[1] \div 4),
          B64Char((b[1] % 4) * 16 + b[2] \div 16),
          B64Char((b[2] % 16) * 4), "=">>
    ELSE
        <<B64Char(b[1] \div 4),
          B64Char((b[1] % 4) * 16 + b[2] \div 16),
          B64Char((b[2] % 16) * 4 + b[3] \div 64),
          B64Char(b[3] % 64)>> \o b64encode(SubSeq(b, 4, Len(b)))

\* The fill of ljust and the numbers of lines 248 and 249.
Dots(n) == [i \in 1..n |-> "."]
FpPadWidth == 16
FpMaxLen == 64

\* str.rjust(width, '.'): the fill goes in front.
Rjust(t, width) == IF Len(t) >= width THEN t ELSE Dots(width - Len(t)) \o t

\* Line 248, str.ljust(width, '.'): the text, then the fill up to width; a
\* text that is already that long is returned as it is.
Ljust(t, width) == IF Len(t) >= width THEN t ELSE t \o Dots(width - Len(t))

\* Line 249, fprint[0:n].
Prefix(t, n) == SubSeq(t, 1, IF Len(t) < n THEN Len(t) ELSE n)

\* Lines 247-249.
DefaultFingerprintOf(name) ==
    Prefix(Ljust(b64encode(Utf8(name)), FpPadWidth), FpMaxLen)

\* Lines 246-249: a camera without 'fingerprint' gets the default.
DefaultFingerprint ==
    /\ fpPc = "default"
    /\ fingerprint' = IF fingerprint = None
                      THEN DefaultFingerprintOf(fp_name)
                      ELSE fingerprint
    /\ fpPc' = "done"
    /\ UNCHANGED <<restOfFp, fp_name>>

FpInit ==
    /\ LifeStart(FALSE, <<>>)
    /\ NegStart(<<>>, None)
    /\ ResStart(<<>>, <<>>, None)
    /\ \E name \in FpNames, configured \in ConfiguredFingerprints \cup {None} :
         FpStart(name, configured)
    /\ StreamStart(<<>>, 0, 0, 1)

FpNext == DefaultFingerprint

FpSpec == FpInit /\ [][FpNext]_vars

\* ------------------------------------- fingerprint default: what is claimed

\* The default was computed for this camera.
Defaulted == fpPc = "done" /\ fingerprint \notin ConfiguredFingerprints
Encoded == b64encode(Utf8(fp_name))

\* C14 (as claimed): the default fingerprint always has length exactly 64.
C14_DefaultFingerprintLength64 ==
    Defaulted => Len(fingerprint) = 64

\* C14 (amended): the default fingerprint is base64(name) followed by "."
\* up to 16 characters when the encoding is shorter than 16, the encoding
\* itself when it has 16 to 64 characters, and its first 64 characters when
\* it is longer; its length is between 16 and 64. For "cam1" it is
\* "Y2FtMQ==" followed by eight ".".
C14_DefaultFingerprint ==
    Defaulted =>
        /\ Len(fingerprint) >= 16 /\ Len(fingerprint) <= 64
        /\ Len(Encoded) < 16 =>
             /\ Len(fingerprint) = 16
             /\ SubSeq(fingerprint, 1, Len(Encoded)) = Encoded
             /\ \A i \in (Len(Encoded) + 1)..16 : fingerprint[i] = "."
        /\ (Len(Encoded) >= 16 /\ Len(Encoded) <= 64) => fingerprint = Encoded
        /\ Len(Encoded) > 64 => fingerprint = SubSeq(Encoded, 1, 64)
        /\ fp_name = <<"c", "a", "m", "1">> =>
             fingerprint = <<"Y", "2", "F", "t", "M", "Q", "=", "=",
                             ".", ".", ".", ".", ".", ".", ".", ".">>

\* C14 witness: the default computed for the camera named "cam1".
C14_Witness ==
    /\ Defaulted
    /\ fp_name = <<"c", "a", "m", "1">>
    /\ Len(fingerprint) = 16

\* ------------------------------------------------ MMapStreamer, 151-168

\* Sizes of the mapping and amounts a caller asks for.
MaxMap == 3
MaxAmount == 3

\* The default of the parameter `block` (line 152).
BlockDefault == 65535

\* The mapping holds, at each offset, a byte that names the offset.
Mappings == {[i \in 1..n |-> i] : n \in 0..MaxMap}
Blocks == {1, 2, BlockDefault}

\* read(): no argument is amount = -1 (line 161).
Amounts == {-1} \cup 1..MaxAmount

Min(a, b) == IF a < b THEN a ELSE b

\* mmap.read(k): the next k bytes from the position, fewer at the end of
\* the mapping.
MmapRead(k) == SubSeq(mmapData, mmapPos + 1, Min(mmapPos + k, Len(mmapData)))

\* Lines 161-168, one call read(amount). With nothing remaining the result
\* is b''. A negative amount then reads self.total, an attribute __init__
\* never sets: AttributeError, and nothing else changes. Otherwise the
\* mapping is read and remaining goes down by what came back.
Read(amount) ==
    /\ last_amount' = amount
    /\ IF remaining <= 0
       THEN /\ last_data' = <<>>
            /\ UNCHANGED <<mmapPos, remaining, returned, raised>>
       ELSE IF amount < 0
       THEN /\ raised' = "AttributeError"
            /\ last_data' = <<>>
            /\ UNCHANGED <<mmapPos, remaining, returned>>
       ELSE /\ last_data' = MmapRead(Min(Min(block, remaining), amount))
            /\ mmapPos' = mmapPos + Len(last_data')
            /\ remaining' = remaining - Len(last_data')
            /\ returned' = returned \o last_data'
            /\ raised' = raised
    /\ UNCHANGED <<restOfStream, mmapData, startPos, n_total, block, len_>>

StreamInit ==
    /\ LifeStart(FALSE, <<>>)
    /\ NegStart(<<>>, None)
    /\ ResStart(<<>>, <<>>, None)
    /\ FpStart(<<>>, None)
    /\ \E data \in Mappings, tot \in 0..MaxMap, blk \in Blocks :
         \E pos \in 0..Len(data) : StreamStart(data, pos, tot, blk)

StreamNext == \E amount \in Amounts : Read(amount)

StreamSpec == StreamInit /\ [][StreamNext]_vars

\* ------------------------------------------------ MMapStreamer: what is claimed

\* The mapping has n bytes from the position the streamer started at.
Available == startPos + n_total <= Len(mmapData)

\* C20 (as claimed): for a streamer built with total = n over a mapping
\* that has n bytes from its position, after any sequence of read calls with
\* a positive or a negative (absent) amount: no call has raised; the latest
\* chunk has at most min(block, amount) bytes; the chunks returned so far
\* are, concatenated, the first bytes of the n bytes from the starting
\* position; and an empty chunk was returned only once all n bytes had been.
C20_StreamerReads ==
    Available =>
        /\ raised = "none"
        /\ Len(last_data) <= block
        /\ last_amount > 0 => Len(last_data) <= last_amount
        /\ Len(returned) = n_total - remaining
        /\ returned = SubSeq(mmapData, startPos + 1, startPos + Len(returned))
        /\ (last_amount # 0 /\ last_data = <<>>) => Len(returned) = n_total

====
